---- MODULE Spec2Model ----
(***************************************************************************)
(* Model of Scripts/get_access_token.py: get_token() and the __main__      *)
(* block.  One action per statement group of the script; the program       *)
(* counter values are the source line numbers of the statement about to    *)
(* run.  The MSAL library and pyperclip are external: every call returns   *)
(* one of the values the script's own code distinguishes (None, an empty   *)
(* dict, dicts with or without each key it reads) or raises.               *)
(***************************************************************************)
EXTENDS Integers, Sequences, FiniteSets

\* ---------------------------------------------------------------- bounds
MaxAccounts == 2

\* ------------------------------------------------------------- constants
SCOPES == "https://graph.microsoft.com/EntitlementManagement.ReadWrite.All"
PROMPT == "select_account"

Absent == "<absent>"
EmptyDict == "{}"
Usernames == {"alice@contoso.com", "bob@contoso.com"}
Tokens == {"eyJ.tokenA", "eyJ.tokenB"}

\* ------------------------------------------------- values of the library
\* app.get_accounts(): a list of account dicts, identified by username.
AccountLists == UNION {[1..n -> Usernames] : n \in 0..MaxAccounts}

\* A result of acquire_token_silent / acquire_token_interactive: None, or a
\* dict in which each key the script reads is present or absent.
None == [none |-> TRUE, access_token |-> Absent, error |-> Absent,
         error_description |-> Absent, account |-> Absent, expires_in |-> Absent]

Dicts == [none : {FALSE},
          access_token : Tokens \cup {Absent},
          error : {"invalid_grant", Absent},
          error_description : {"AADSTS50076", Absent},
          account : Usernames \cup {EmptyDict, Absent},
          expires_in : {"3599", Absent}]

Results == Dicts \cup {None}

Keys == {"access_token", "error", "error_description", "account", "expires_in"}

\* `key in result`
Has(r, k) == (~r.none) /\ r[k] # Absent

\* result.get(key, default)
Get(r, k, default) == IF Has(r, k) THEN r[k] ELSE default

\* Python truth value of a result: None and the empty dict are falsy.
Truthy(r) == (~r.none) /\ (\E k \in Keys : r[k] # Absent)

Line(m, a) == [msg |-> m, arg |-> a]

VARIABLES pc, accounts, result, token, out, clipboard, exitStatus,
          returned, calls, silentResult, raised

vars == <<pc, accounts, result, token, out, clipboard, exitStatus,
          returned, calls, silentResult, raised>>

Init ==
    /\ pc = "L21"
    /\ accounts = << >>
    /\ result = None
    /\ token = Absent
    /\ out = << >>
    /\ clipboard = Absent
    /\ exitStatus = -1
    /\ returned = Absent
    /\ calls = << >>
    /\ silentResult = None
    /\ raised = << >>


\* ------------------------------------------------------- console output
\* print() calls of lines 21-22
BannerLines ==
    <<Line("Authenticating to Microsoft Graph...", ""), Line("Scope:", SCOPES)>>

\* accounts[-1] in place of accounts[0]
LastAccount(accts) == accts[Len(accts)]

\* accounts[0], the account handed to acquire_token_silent (line 37)
FirstAccount(accts) == accts[1]

\* print() calls of lines 35-36
CachedLines(accts) ==
    <<Line("Found cached account:", FirstAccount(accts)),
      Line("Attempting silent authentication...", "")>>

\* print() calls of lines 40-41
BrowserLines ==
    <<Line("Opening browser for interactive authentication...", ""),
      Line("Please sign in and grant consent when prompted.", "")>>

\* result.get('account', {}).get('username', 'Unknown') (line 53)
UsernameText(r) ==
    IF Get(r, "account", EmptyDict) = EmptyDict THEN "Unknown" ELSE r.account

\* print() calls of lines 52-54
SuccessLines(r) ==
    <<Line("Authentication successful!", ""),
      Line("Account:", UsernameText(r)),
      Line("Token expires in:", Get(r, "expires_in", "Unknown"))>>

\* print() call of line 59
CopiedLines == <<Line("Token copied to clipboard!", "")>>

\* the fallback print of the token (line 62) left out
ClipFailLinesNoToken(tok) ==
    <<Line("Could not copy to clipboard:", "PyperclipException")>>

\* print() calls of lines 61-62
ClipFailLines(tok) ==
    <<Line("Could not copy to clipboard:", "PyperclipException"),
      Line("Your token:", tok)>>

\* print() calls of lines 65-71
ExportLines(tok) ==
    <<Line("To set environment variable:", ""),
      Line("PowerShell:", ""),
      Line("$env:GRAPH_TOKEN =", tok),
      Line("Bash/Zsh:", ""),
      Line("export GRAPH_TOKEN=", tok),
      Line("Deploy your catalog!!", "")>>

\* the failure report with the result's fields not read
FailureLinesNoDetail(r) ==
    <<Line("Authentication failed!", ""),
      Line("   Error:", "Unknown error"),
      Line("   Description:", "No description")>>

\* print() calls of lines 75-77
FailureLines(r) ==
    <<Line("Authentication failed!", ""),
      Line("   Error:", Get(r, "error", "Unknown error")),
      Line("   Description:", Get(r, "error_description", "No description"))>>

\* print() call of line 84
CancelledLines == <<Line("Cancelled by user", "")>>

\* print() call of line 87
GenericErrorLines(t) == <<Line("[x] Error:", t)>>

\* ------------------------------------------------------- control flow
\* `if accounts:` (line 34)
HasAccounts(accts) == Len(accts) > 0

\* `if result is None:` in place of `if not result:`
ResultIsNone(r) == r.none

\* `if not result:` (line 39)
NotResult(r) == ~Truthy(r)

\* `if "error" not in result:` in place of the access_token test
HasNoError(r) == ~Has(r, "error")

\* `if "access_token" in result:` (line 49)
HasAccessToken(r) == Has(r, "access_token")

\* `while not result:` in place of `if not result:` (a retry loop)
RetryInteractive(r) == IF ~Truthy(r) THEN "L44" ELSE "L49"

\* where control goes after the interactive login returned (lines 44-49)
AfterInteractive(r) == "L49"

\* the clipboard block left out: straight to the export commands
SkipClipboard == "L65"

\* where control goes after the success banner (lines 54-58)
AfterSuccessPrint == "L58"

\* `except Exception` matches every exception that is not a BaseException-only
\* class; KeyboardInterrupt and SystemExit are not subclasses of Exception.
IsException(t) == t \notin {"KeyboardInterrupt", "SystemExit"}

\* no handler around pyperclip.copy
ClipboardHandlesNothing(t) == FALSE

\* a bare `except:` around pyperclip.copy
ClipboardHandlesAll(t) == TRUE

\* `except Exception as e:` around pyperclip.copy (line 60)
ClipboardHandles(t) == IsException(t)

\* `except BaseException` in place of `except Exception` (line 86)
MainHandlerBase(t) == IF t = "KeyboardInterrupt" THEN "L84" ELSE "L87"

\* the except clauses of the __main__ block (lines 83-88); an exception none
\* of them matches leaves the interpreter
MainHandler(t) ==
    IF t = "KeyboardInterrupt" THEN "L84"
    ELSE IF IsException(t) THEN "L87"
    ELSE "uncaught"

\* the handler an exception of type t raised at statement `at` reaches
RaiseTarget(t, at) ==
    IF at = "L58" /\ ClipboardHandles(t) THEN "L61" ELSE MainHandler(t)

\* statements inside get_token(), all under the try of line 81
GetTokenPcs == {"L21", "L25", "L31", "L34", "L37", "L39", "L44", "L49", "L50",
                "L58", "L59", "L61", "L65", "L73", "L75", "L78"}

Raise(t) ==
    /\ pc' = RaiseTarget(t, pc)
    /\ raised' = Append(raised, [type |-> t, at |-> pc])

Call(fn, a) == Append(calls, [fn |-> fn, arg |-> a])

\* exception classes a library call can raise into the script
LibraryRaises == {"Exception", "KeyboardInterrupt"}

\* ------------------------------------------------------------ get_token
\* lines 21-22
PrintBanner ==
    /\ pc = "L21"
    /\ out' = out \o BannerLines
    /\ pc' = "L25"
    /\ UNCHANGED <<accounts, result, token, clipboard, exitStatus, returned,
                   calls, silentResult, raised>>

\* lines 25-28: app = msal.PublicClientApplication(...)
CreateApp ==
    /\ pc = "L25"
    /\ calls' = Call("PublicClientApplication", "common")
    /\ \/ pc' = "L31" /\ UNCHANGED raised
       \/ \E t \in LibraryRaises : Raise(t)
    /\ UNCHANGED <<accounts, result, token, out, clipboard, exitStatus,
                   returned, silentResult>>

\* lines 31-32: accounts = app.get_accounts(); result = None
GetAccounts ==
    /\ pc = "L31"
    /\ calls' = Call("get_accounts", "")
    /\ \/ /\ \E accts \in AccountLists : accounts' = accts
          /\ result' = None
          /\ pc' = "L34"
          /\ UNCHANGED raised
       \/ /\ \E t \in LibraryRaises : Raise(t)
          /\ UNCHANGED <<accounts, result>>
    /\ UNCHANGED <<token, out, clipboard, exitStatus, returned, silentResult>>

\* lines 34-36: if accounts: print the cached account
IfAccounts ==
    /\ pc = "L34"
    /\ IF HasAccounts(accounts)
          THEN out' = out \o CachedLines(accounts) /\ pc' = "L37"
          ELSE out' = out /\ pc' = "L39"
    /\ UNCHANGED <<accounts, result, token, clipboard, exitStatus, returned,
                   calls, silentResult, raised>>

\* line 37: result = app.acquire_token_silent(SCOPES, account=accounts[0])
AcquireTokenSilent ==
    /\ pc = "L37"
    /\ calls' = Call("acquire_token_silent", FirstAccount(accounts))
    /\ \/ /\ \E r \in Results : result' = r /\ silentResult' = r
          /\ pc' = "L39"
          /\ UNCHANGED raised
       \/ /\ \E t \in LibraryRaises : Raise(t)
          /\ UNCHANGED <<result, silentResult>>
    /\ UNCHANGED <<accounts, token, out, clipboard, exitStatus, returned>>

\* lines 39-41: if not result: announce the browser login
IfNotResult ==
    /\ pc = "L39"
    /\ IF NotResult(result)
          THEN out' = out \o BrowserLines /\ pc' = "L44"
          ELSE out' = out /\ pc' = "L49"
    /\ UNCHANGED <<accounts, result, token, clipboard, exitStatus, returned,
                   calls, silentResult, raised>>

\* lines 44-47: result = app.acquire_token_interactive(scopes, prompt)
AcquireTokenInteractive ==
    /\ pc = "L44"
    /\ calls' = Call("acquire_token_interactive", PROMPT)
    /\ \/ /\ \E r \in Results : result' = r /\ pc' = AfterInteractive(r)
          /\ UNCHANGED raised
       \/ /\ \E t \in LibraryRaises : Raise(t)
          /\ UNCHANGED result
    /\ UNCHANGED <<accounts, token, out, clipboard, exitStatus, returned,
                   silentResult>>

\* line 49: if "access_token" in result  (TypeError when result is None)
IfAccessToken ==
    /\ pc = "L49"
    /\ IF result.none
          THEN Raise("TypeError")
          ELSE /\ pc' = IF HasAccessToken(result) THEN "L50" ELSE "L75"
               /\ UNCHANGED raised
    /\ UNCHANGED <<accounts, result, token, out, clipboard, exitStatus,
                   returned, calls, silentResult>>

\* lines 50-54: token = result["access_token"]; print the success banner
SuccessPrint ==
    /\ pc = "L50"
    /\ token' = result.access_token
    /\ out' = out \o SuccessLines(result)
    /\ pc' = AfterSuccessPrint
    /\ UNCHANGED <<accounts, result, clipboard, exitStatus, returned, calls,
                   silentResult, raised>>

\* line 58: pyperclip.copy(token), inside the try of line 57
ClipboardCopy ==
    /\ pc = "L58"
    /\ calls' = Call("pyperclip.copy", token)
    /\ \/ clipboard' = token /\ pc' = "L59" /\ UNCHANGED raised
       \/ clipboard' = clipboard /\ Raise("PyperclipException")
       \/ clipboard' \in {clipboard, token} /\ Raise("KeyboardInterrupt")
    /\ UNCHANGED <<accounts, result, token, out, exitStatus, returned,
                   silentResult>>

\* line 59
PrintCopied ==
    /\ pc = "L59"
    /\ out' = out \o CopiedLines
    /\ pc' = "L65"
    /\ UNCHANGED <<accounts, result, token, clipboard, exitStatus, returned,
                   calls, silentResult, raised>>

\* lines 60-62: except Exception as e: warn and print the token
ClipboardExcept ==
    /\ pc = "L61"
    /\ out' = out \o ClipFailLines(token)
    /\ pc' = "L65"
    /\ UNCHANGED <<accounts, result, token, clipboard, exitStatus, returned,
                   calls, silentResult, raised>>

\* lines 65-71
PrintExport ==
    /\ pc = "L65"
    /\ out' = out \o ExportLines(token)
    /\ pc' = "L73"
    /\ UNCHANGED <<accounts, result, token, clipboard, exitStatus, returned,
                   calls, silentResult, raised>>

\* line 73: return token
Return ==
    /\ pc = "L73"
    /\ returned' = token
    /\ pc' = "end"
    /\ UNCHANGED <<accounts, result, token, out, clipboard, exitStatus, calls,
                   silentResult, raised>>

\* lines 75-77
FailurePrint ==
    /\ pc = "L75"
    /\ out' = out \o FailureLines(result)
    /\ pc' = "L78"
    /\ UNCHANGED <<accounts, result, token, clipboard, exitStatus, returned,
                   calls, silentResult, raised>>

\* line 78: sys.exit(1) raises SystemExit(1)
SysExit ==
    /\ pc = "L78"
    /\ Raise("SystemExit")
    /\ UNCHANGED <<accounts, result, token, out, clipboard, exitStatus,
                   returned, calls, silentResult>>

\* Ctrl-C delivered while a statement of get_token() is about to run
KeyboardInterrupt ==
    /\ pc \in GetTokenPcs
    /\ Raise("KeyboardInterrupt")
    /\ UNCHANGED <<accounts, result, token, out, clipboard, exitStatus,
                   returned, calls, silentResult>>

\* ------------------------------------------------------------- __main__
\* lines 83-85: except KeyboardInterrupt: print, sys.exit(1)
ExceptKeyboardInterrupt ==
    /\ pc = "L84"
    /\ out' = out \o CancelledLines
    /\ pc' = "uncaught"
    /\ raised' = Append(raised, [type |-> "SystemExit", at |-> "L85"])
    /\ UNCHANGED <<accounts, result, token, clipboard, exitStatus, returned,
                   calls, silentResult>>

\* lines 86-88: except Exception as e: print, sys.exit(1)
ExceptException ==
    /\ pc = "L87"
    /\ out' = out \o GenericErrorLines(raised[Len(raised)].type)
    /\ pc' = "uncaught"
    /\ raised' = Append(raised, [type |-> "SystemExit", at |-> "L88"])
    /\ UNCHANGED <<accounts, result, token, clipboard, exitStatus, returned,
                   calls, silentResult>>

\* SystemExit(1) reaches the interpreter: the process ends with status 1
InterpreterExit ==
    /\ pc = "uncaught"
    /\ exitStatus' = 1
    /\ pc' = "done"
    /\ UNCHANGED <<accounts, result, token, out, clipboard, returned, calls,
                   silentResult, raised>>

\* get_token() returned to line 82 and the module ends: status 0
ModuleEnd ==
    /\ pc = "end"
    /\ exitStatus' = 0
    /\ pc' = "done"
    /\ UNCHANGED <<accounts, result, token, out, clipboard, returned, calls,
                   silentResult, raised>>

Next ==
    \/ PrintBanner
    \/ CreateApp
    \/ GetAccounts
    \/ IfAccounts
    \/ AcquireTokenSilent
    \/ IfNotResult
    \/ AcquireTokenInteractive
    \/ IfAccessToken
    \/ SuccessPrint
    \/ ClipboardCopy
    \/ PrintCopied
    \/ ClipboardExcept
    \/ PrintExport
    \/ Return
    \/ FailurePrint
    \/ SysExit
    \/ KeyboardInterrupt
    \/ ExceptKeyboardInterrupt
    \/ ExceptException
    \/ InterpreterExit
    \/ ModuleEnd

Spec == Init /\ [][Next]_vars

\* ============================================================ properties
Done == pc = "done"

LinePrinted(l) == \E i \in 1..Len(out) : out[i] = l

Printed(m) == \E i \in 1..Len(out) : out[i].msg = m

TokenShown == \E i \in 1..Len(out) : out[i].arg \in Tokens

CallsOf(fn) == {i \in 1..Len(calls) : calls[i].fn = fn}

RaisedType(t) == \E i \in 1..Len(raised) : raised[i].type = t

RaisedAt(t, at) == \E i \in 1..Len(raised) : raised[i] = [type |-> t, at |-> at]

Interrupted == RaisedType("KeyboardInterrupt")

LibraryRaised == RaisedType("Exception")

ClipFailed == RaisedType("PyperclipException")

HasToken(r) == (~r.none) /\ r.access_token # Absent

HasError(r) == (~r.none) /\ r.error # Absent

SilentCalls == CallsOf("acquire_token_silent")

InteractiveCalls == CallsOf("acquire_token_interactive")

ClipCalls == CallsOf("pyperclip.copy")

\* ---------------------------------------------------------------- C1
\* C1: in a run that is not interrupted and in which no MSAL call raises, a
\* final result that contains an access_token means the success message was
\* printed and the process ended with status 0.
C1_TokenMeansExitZero ==
    (Done /\ ~Interrupted /\ ~LibraryRaised /\ HasToken(result))
        => /\ exitStatus = 0
           /\ LinePrinted(Line("Authentication successful!", ""))

\* a finished run whose token came from the interactive login after a silent
\* attempt, with an error field beside the access_token
C1_Witness ==
    /\ Done /\ exitStatus = 0
    /\ SilentCalls # {} /\ InteractiveCalls # {}
    /\ HasToken(result) /\ HasError(result)

\* ---------------------------------------------------------------- C2
\* C2 as stated: in an uninterrupted run, every final result with an error
\* field ends in the printed error, the printed description and status 1,
\* whatever other fields the result carries.
C2_Original ==
    (Done /\ ~Interrupted /\ HasError(result))
        => /\ exitStatus = 1
           /\ LinePrinted(Line("   Error:", result.error))
           /\ Has(result, "error_description")
                 => LinePrinted(Line("   Description:", result.error_description))

\* C2 amended: in an uninterrupted run, a final result with an error field
\* and no access_token ends in the printed error, the printed description
\* and status 1, whether it came from the silent or the interactive call.
C2_ErrorWithoutTokenExitsOne ==
    (Done /\ ~Interrupted /\ HasError(result) /\ ~HasToken(result))
        => /\ exitStatus = 1
           /\ LinePrinted(Line("Authentication failed!", ""))
           /\ LinePrinted(Line("   Error:", result.error))
           /\ Has(result, "error_description")
                 => LinePrinted(Line("   Description:", result.error_description))
           /\ ~Has(result, "error_description")
                 => LinePrinted(Line("   Description:", "No description"))

\* a finished run whose error result came from the silent call alone
C2_Witness ==
    /\ Done /\ exitStatus = 1 /\ ~Interrupted
    /\ HasError(result) /\ ~HasToken(result)
    /\ Has(result, "error_description")
    /\ result = silentResult /\ InteractiveCalls = {}

\* ---------------------------------------------------------------- C3
\* the classification of the result has been reached (lines 49-78)
Classifying == pc \in {"L49", "L50", "L75", "L78"}

\* C3 as stated: when there was no silent attempt, or the silent attempt did
\* not produce an access token (it returned None, an empty result, or a
\* result describing an error), the interactive login (prompt
\* select_account) has been launched before the result is classified, so the
\* failure branch is never reached on a silent result alone.
C3_Original ==
    (Classifying /\ (~Truthy(silentResult) \/ HasError(silentResult))
                 /\ ~HasToken(silentResult))
        => \E i \in InteractiveCalls : calls[i].arg = PROMPT

\* C3 amended: when there was no silent attempt, or the silent attempt
\* returned None or an empty result, the interactive login (prompt
\* select_account) has been launched before the result is classified; the
\* failure branch is reached without an interactive login exactly on a
\* non-empty silent result that has no access_token.
C3_FalsySilentFallsBack ==
    /\ (Classifying /\ ~Truthy(silentResult))
          => \E i \in InteractiveCalls : calls[i].arg = PROMPT
    /\ (pc \in {"L75", "L78"} /\ InteractiveCalls = {})
          => /\ Truthy(silentResult) /\ ~HasToken(silentResult)
             /\ result = silentResult
    /\ (Classifying /\ Truthy(silentResult)) => InteractiveCalls = {}

\* the silent call returned an empty dict and the browser login was launched
C3_Witness ==
    /\ pc = "L49"
    /\ SilentCalls # {} /\ ~silentResult.none /\ ~Truthy(silentResult)
    /\ InteractiveCalls # {}

\* ---------------------------------------------------------------- C4
\* C4: once pyperclip.copy has been attempted (it returned or it raised an
\* exception) and the run is not interrupted, the run ends with the export
\* commands printed, the result's token returned and status 0, whichever way
\* the copy went.
C4_ClipboardFailureKeepsSuccess ==
    (Done /\ ClipCalls # {} /\ ~Interrupted)
        => /\ exitStatus = 0
           /\ returned = result.access_token /\ returned \in Tokens
           /\ LinePrinted(Line("$env:GRAPH_TOKEN =", result.access_token))
           /\ LinePrinted(Line("export GRAPH_TOKEN=", result.access_token))
           /\ ~Printed("[x] Error:") /\ ~Printed("Authentication failed!")

\* a finished run in which pyperclip.copy raised
C4_Witness ==
    /\ Done /\ exitStatus = 0
    /\ RaisedAt("PyperclipException", "L58")
    /\ clipboard = Absent /\ returned \in Tokens

\* ---------------------------------------------------------------- C5
ClipMsgs == {"Token copied to clipboard!", "Could not copy to clipboard:",
             "Your token:"}

IsClipLine(l) == l.msg \in ClipMsgs

NotClipLine(l) == l.msg \notin ClipMsgs

\* what a successful run prints apart from the clipboard lines
CommonLines ==
    BannerLines
    \o (IF SilentCalls # {} THEN CachedLines(accounts) ELSE << >>)
    \o (IF InteractiveCalls # {} THEN BrowserLines ELSE << >>)
    \o SuccessLines(result)
    \o ExportLines(result.access_token)

\* C5 as stated: in a successful run the raw token appears in the console
\* output exactly when the clipboard copy failed.
C5_Original ==
    (Done /\ exitStatus = 0) => (TokenShown <=> ClipFailed)

\* C5 amended: in a successful run the raw token is printed in both export
\* commands whichever way the copy went; a failed copy adds the warning and
\* the separate "Your token" line with the raw token in place of the "copied"
\* line and leaves the clipboard unwritten, and nothing else in the output
\* depends on the clipboard outcome.
C5_ClipboardOutcomeDifference ==
    (Done /\ exitStatus = 0)
        => /\ TokenShown
           /\ SelectSeq(out, NotClipLine) = CommonLines
           /\ SelectSeq(out, IsClipLine) =
                 IF ClipFailed
                    THEN <<Line("Could not copy to clipboard:", "PyperclipException"),
                           Line("Your token:", result.access_token)>>
                    ELSE <<Line("Token copied to clipboard!", "")>>
           /\ clipboard = IF ClipFailed THEN Absent ELSE result.access_token

\* a successful run whose copy failed and that printed the token separately
C5_Witness ==
    /\ Done /\ exitStatus = 0 /\ ClipFailed
    /\ LinePrinted(Line("Your token:", token))
    /\ LinePrinted(Line("export GRAPH_TOKEN=", token))

\* ---------------------------------------------------------------- C6
\* C6: a KeyboardInterrupt raised at any statement of get_token() (a print,
\* an MSAL call, the clipboard copy) never leads to status 0 or to the
\* generic error message, and the run ends with the cancellation message
\* and status 1.
C6_InterruptCancels ==
    Interrupted
        => /\ exitStatus # 0
           /\ pc \in {"L84", "uncaught", "done"}
           /\ ~Printed("[x] Error:")
           /\ returned = Absent
           /\ Done => /\ exitStatus = 1
                      /\ out[Len(out)] = Line("Cancelled by user", "")

\* a finished run interrupted inside pyperclip.copy, after the clipboard was
\* written
C6_Witness ==
    /\ Done
    /\ RaisedAt("KeyboardInterrupt", "L58")
    /\ ClipCalls # {} /\ clipboard \in Tokens

\* ---------------------------------------------------------------- C7
\* C7: a run that has not ended can take a step, and a run ends with status
\* 0 or 1; the status is 1 when the final result has no access_token, when
\* the run was interrupted, and when an MSAL call raised or the membership
\* test on a None result raised TypeError.  The failure branch ends through
\* sys.exit(1) without the generic handler: it prints the authentication
\* error and never the generic error message.
C7_ExitStatus ==
    /\ Done \/ ENABLED Next
    /\ Done <=> exitStatus \in {0, 1}
    /\ Done => /\ ~HasToken(result) => exitStatus = 1
               /\ Interrupted => exitStatus = 1
               /\ LibraryRaised => exitStatus = 1
               /\ RaisedType("TypeError") => exitStatus = 1
    /\ (LibraryRaised \/ RaisedType("TypeError")) /\ Done
          => Printed("[x] Error:")
    /\ Printed("Authentication failed!") => ~Printed("[x] Error:")
    /\ (Done /\ Printed("Authentication failed!") /\ ~Interrupted)
          => /\ exitStatus = 1
             /\ raised = <<[type |-> "SystemExit", at |-> "L78"]>>
             /\ out[Len(out) - 1].msg = "   Error:"
             /\ out[Len(out)].msg = "   Description:"

\* the interactive login returned None and the run ended through the
\* generic handler
C7_Witness ==
    /\ Done /\ exitStatus = 1
    /\ InteractiveCalls # {} /\ result.none
    /\ RaisedAt("TypeError", "L49")
    /\ LinePrinted(Line("[x] Error:", "TypeError"))

\* ---------------------------------------------------------------- C8
\* C8: the silent call is made at most once and only with a cached account,
\* the interactive call at most once and after the silent one, and a run
\* whose interactive login gave no access token ends with status 1 without
\* another acquisition call.
C8_NoRetries ==
    /\ Cardinality(SilentCalls) <= 1
    /\ Cardinality(InteractiveCalls) <= 1
    /\ SilentCalls # {} => Len(accounts) > 0
    /\ \A i \in SilentCalls : \A j \in InteractiveCalls : i < j
    /\ \A j \in InteractiveCalls : \A k \in (SilentCalls \cup InteractiveCalls) :
          k <= j
    /\ (InteractiveCalls # {} /\ pc # "L44" /\ ~HasToken(result))
          => /\ pc \in {"L49", "L75", "L78", "L84", "L87", "uncaught", "done"}
             /\ exitStatus # 0

\* a run that tried silently, fell back to the browser, failed and ended
C8_Witness ==
    /\ Done /\ exitStatus = 1
    /\ SilentCalls # {} /\ InteractiveCalls # {}
    /\ HasError(result) /\ ~HasToken(result)
    /\ Printed("Authentication failed!")

\* ---------------------------------------------------------------- C9
\* C9: pyperclip.copy is called at most once, only with the access_token of a
\* result that has one, and exactly once in a run that ends with status 0;
\* the export commands are printed only after that call has finished; and
\* once the failure branch is taken the clipboard is unwritten and neither
\* an export command nor a token has been printed.
C9_TokenSideEffectsOrdered ==
    /\ Cardinality(ClipCalls) <= 1
    /\ \A i \in ClipCalls : HasToken(result) /\ calls[i].arg = result.access_token
    /\ exitStatus = 0 => Cardinality(ClipCalls) = 1
    /\ clipboard # Absent => ClipCalls # {} /\ clipboard = result.access_token
    /\ Printed("To set environment variable:")
          => /\ ClipCalls # {}
             /\ Printed("Token copied to clipboard!") \/ Printed("Your token:")
    /\ pc = "L58" => ~Printed("To set environment variable:")
    /\ (pc \in {"L75", "L78"} \/ Printed("Authentication failed!") \/ ~HasToken(result))
          => /\ ClipCalls = {} /\ clipboard = Absent
             /\ ~Printed("To set environment variable:")
             /\ ~Printed("export GRAPH_TOKEN=")
             /\ ~TokenShown

\* a successful run whose export commands follow a finished, successful copy
C9_Witness ==
    /\ Done /\ exitStatus = 0
    /\ Cardinality(ClipCalls) = 1 /\ clipboard = token
    /\ Printed("Token copied to clipboard!")
    /\ out[Len(out)] = Line("Deploy your catalog!!", "")

\* --------------------------------------------------------------- C10
\* C10: the silent call is made with the first cached account only; when it
\* returns a result with an access_token the interactive login is never
\* called and the token printed, copied and returned is the silent one.
C10_SilentTokenUsed ==
    /\ \A i \in SilentCalls : calls[i].arg = accounts[1]
    /\ Cardinality(SilentCalls) <= 1
    /\ HasToken(silentResult)
          => /\ InteractiveCalls = {}
             /\ result = silentResult
             /\ token \in {Absent, silentResult.access_token}
             /\ clipboard \in {Absent, silentResult.access_token}
             /\ \A i \in 1..Len(out) :
                   out[i].arg \in Tokens => out[i].arg = silentResult.access_token
             /\ (Done /\ exitStatus = 0)
                   => /\ returned = silentResult.access_token
                      /\ LinePrinted(Line("export GRAPH_TOKEN=", silentResult.access_token))

\* two different accounts are cached and the silent token was copied and
\* returned
C10_Witness ==
    /\ Done /\ exitStatus = 0
    /\ Len(accounts) = 2 /\ accounts[1] # accounts[2]
    /\ HasToken(silentResult)
    /\ clipboard = silentResult.access_token
    /\ returned = silentResult.access_token

====
